---------------------------- MODULE Spec2Model ----------------------------
(***************************************************************************)
(* Model of the two API routes of btc-price-range-predictor:               *)
(*   GET /api/btc-price     (src/app/api/btc-price/route.ts)                *)
(*   GET /api/btc-analysis  (src/app/api/btc-analysis/route.ts)             *)
(* JavaScript numbers are modelled as exact rationals extended with NaN,    *)
(* +Infinity, -Infinity and the value undefined; rounding of the binary     *)
(* floating point representation is not modelled.                           *)
(***************************************************************************)
EXTENDS Integers, Sequences, FiniteSets, TLC

VARIABLES
    pc,         \* position of the request handler being executed
    route,      \* the endpoint being served: "price", "analysis", "none" before a request
    idx,        \* 1-based position in the `sources` array of the running fallback loop
    invoked,    \* log of the source adapters called by the running fetcher
    fetched,    \* return value of fetchBTCPrice / fetchHistoricalData
    ind,        \* locals of GET /api/btc-analysis computed in lines 12-25
    sig,        \* results (and HTTP outcomes) of the signal fetches, lines 27-29
    predIn,     \* arguments of the generatePredictions call
    predOut,    \* value returned by generatePredictions
    response,   \* the NextResponse returned by the handler
    prices,     \* argument of the indicator functions (indicator specification)
    indOut      \* values returned by the indicator functions (indicator specification)

vars == <<pc, route, idx, invoked, fetched, ind, sig, predIn, predOut, response, prices, indOut>>

-----------------------------------------------------------------------------
(* JavaScript numbers                                                       *)

NaN   == [k |-> "nan"]
PInf  == [k |-> "inf", s |-> 1]
NInf  == [k |-> "inf", s |-> -1]
Undef == [k |-> "und"]
Null  == [k |-> "null"]

RECURSIVE Gcd(_, _)
Gcd(a, b) == IF b = 0 THEN a ELSE Gcd(b, a % b)

AbsI(n) == IF n < 0 THEN -n ELSE n
SgnI(n) == IF n < 0 THEN -1 ELSE IF n = 0 THEN 0 ELSE 1

\* the finite number n/d in lowest terms with a positive denominator
Num(n, d) ==
    LET g == Gcd(AbsI(n), AbsI(d))
        s == IF d < 0 THEN -1 ELSE 1
    IN  [k |-> "fin", n |-> s * (n \div g), d |-> s * (d \div g)]

Whole(n) == [k |-> "fin", n |-> n, d |-> 1]

IsFin(x) == x.k = "fin"
IsNaN(x) == x.k = "nan"
IsInf(x) == x.k = "inf"

\* ToNumber: undefined converts to NaN, null to 0
ToNumber(x) == IF x.k = "und" THEN NaN ELSE IF x.k = "null" THEN Whole(0) ELSE x

\* sign of a number that is not NaN
Sgn(x) == IF IsInf(x) THEN x.s ELSE SgnI(x.n)

FNeg(a) ==
    LET x == ToNumber(a)
    IN  IF IsNaN(x) THEN NaN
        ELSE IF IsInf(x) THEN [k |-> "inf", s |-> -x.s]
        ELSE [k |-> "fin", n |-> -x.n, d |-> x.d]

FAdd(a, b) ==
    LET x == ToNumber(a)
        y == ToNumber(b)
    IN  IF IsNaN(x) \/ IsNaN(y) THEN NaN
        ELSE IF IsInf(x) /\ IsInf(y) THEN (IF x.s = y.s THEN x ELSE NaN)
        ELSE IF IsInf(x) THEN x
        ELSE IF IsInf(y) THEN y
        ELSE Num(x.n * y.d + y.n * x.d, x.d * y.d)

FSub(a, b) == FAdd(a, FNeg(b))

FMul(a, b) ==
    LET x == ToNumber(a)
        y == ToNumber(b)
    IN  IF IsNaN(x) \/ IsNaN(y) THEN NaN
        ELSE IF IsInf(x) \/ IsInf(y)
             THEN (IF Sgn(x) * Sgn(y) = 0 THEN NaN
                   ELSE [k |-> "inf", s |-> Sgn(x) * Sgn(y)])
        ELSE LET g1 == Gcd(AbsI(x.n), y.d)
                 g2 == Gcd(AbsI(y.n), x.d)
             IN  Num((x.n \div g1) * (y.n \div g2), (x.d \div g2) * (y.d \div g1))

\* IEEE division; every zero of the model is +0
FDiv(a, b) ==
    LET x == ToNumber(a)
        y == ToNumber(b)
    IN  IF IsNaN(x) \/ IsNaN(y) THEN NaN
        ELSE IF IsInf(x) THEN (IF IsInf(y) THEN NaN
                               ELSE [k |-> "inf", s |-> x.s * (IF Sgn(y) < 0 THEN -1 ELSE 1)])
        ELSE IF IsInf(y) THEN Whole(0)
        ELSE IF y.n = 0 THEN (IF x.n = 0 THEN NaN ELSE [k |-> "inf", s |-> SgnI(x.n)])
        ELSE FMul(x, Num(y.d, y.n))

\* a < b ; false as soon as one side is NaN
FLt(a, b) ==
    LET x == ToNumber(a)
        y == ToNumber(b)
    IN  IF IsNaN(x) \/ IsNaN(y) THEN FALSE
        ELSE IF IsInf(x) THEN x.s = -1 /\ ~(IsInf(y) /\ y.s = -1)
        ELSE IF IsInf(y) THEN y.s = 1
        ELSE x.n * y.d < y.n * x.d

FGt(a, b) == FLt(b, a)

FEq(a, b) ==
    LET x == ToNumber(a)
        y == ToNumber(b)
    IN  ~IsNaN(x) /\ ~IsNaN(y) /\ x = y

FLe(a, b) == FLt(a, b) \/ FEq(a, b)
FGe(a, b) == FLe(b, a)

\* Math.abs
FAbs(a) ==
    LET x == ToNumber(a)
    IN  IF IsNaN(x) THEN NaN
        ELSE IF IsInf(x) THEN PInf
        ELSE [k |-> "fin", n |-> AbsI(x.n), d |-> x.d]

\* Math.max / Math.min of two arguments: NaN as soon as one argument is NaN
FMax(a, b) ==
    LET x == ToNumber(a)
        y == ToNumber(b)
    IN  IF IsNaN(x) \/ IsNaN(y) THEN NaN ELSE IF FLt(x, y) THEN y ELSE x

FMin(a, b) ==
    LET x == ToNumber(a)
        y == ToNumber(b)
    IN  IF IsNaN(x) \/ IsNaN(y) THEN NaN ELSE IF FLt(y, x) THEN y ELSE x

\* truthiness of a value used as a condition: 0, NaN, undefined and null are falsy
Truthy(x) == ~(x.k \in {"nan", "und", "null"}) /\ ~(IsFin(x) /\ x.n = 0)

\* x || 0
OrZero(x) == IF Truthy(x) THEN x ELSE Whole(0)

RECURSIVE Pow10(_)
Pow10(e) == IF e = 0 THEN 1 ELSE 10 * Pow10(e - 1)

\* parseFloat(x.toFixed(digits)) for a number x: the nearest multiple of
\* 10^-digits, a tie going away from zero; NaN and the infinities print as
\* "NaN" and "Infinity", which parseFloat reads back.
ToFixed(x, digits) ==
    IF ~IsFin(x) THEN x
    ELSE LET g == Gcd(x.d, Pow10(digits))
             m == Pow10(digits) \div g
             e == x.d \div g
             a == AbsI(x.n) * m
             q == a \div e
             r == a % e
             u == IF 2 * r >= e THEN q + 1 ELSE q
         IN  Num(SgnI(x.n) * u, Pow10(digits))

-----------------------------------------------------------------------------
(* HTTP exchanges                                                           *)

\* a JSON string
Str(t) == [k |-> "str", t |-> t]

\* parseFloat: a text is read as the number it starts with, a text that does
\* not start with a number and a missing member (undefined) give NaN
ParseFloat(v) ==
    IF v.k = "str"
    THEN CASE v.t = "0"  -> Whole(0)
           [] v.t = "1"  -> Whole(1)
           [] v.t = "2"  -> Whole(2)
           [] v.t = "3"  -> Whole(3)
           [] v.t = "4"  -> Whole(4)
           [] v.t = "5"  -> Whole(5)
           [] v.t = "-1" -> Whole(-1)
           [] OTHER      -> NaN
    ELSE IF v.k \in {"und", "null"} THEN NaN
    ELSE v

\* outcome of a call that rejects / throws
Threw == [k |-> "threw"]

\* one fetch(): net = the promise resolved, ok = response.ok, json = what
\* response.json() gives ("bad": it throws, "empty": an object without the
\* expected members, "data": the expected shape), val = the payload member
Resp(net, ok, json, val) == [net |-> net, ok |-> ok, json |-> json, val |-> val]

NetFail   == Resp(FALSE, FALSE, "bad", Undef)
BadStatus == Resp(TRUE, FALSE, "bad", Undef)
BadJson   == Resp(TRUE, TRUE, "bad", Undef)
EmptyObj  == Resp(TRUE, TRUE, "empty", Undef)

\* common prefix of every adapter: await fetch(); if (!response.ok) throw;
\* await response.json()
Rejects(r) == ~r.net \/ ~r.ok \/ r.json = "bad"

-----------------------------------------------------------------------------
(* GET /api/btc-price                                                       *)

SpotSources == <<"Binance", "Kraken", "Coinbase", "Bybit", "OKX", "CoinGecko">>

\* texts of the price member of a ticker payload
PriceTexts == {"0", "-1", "abc", "1", "2"}

\* what the spot endpoint of a source may answer
SpotResponses(name) ==
    {NetFail, BadStatus, BadJson, EmptyObj}
    \cup (IF name = "CoinGecko"
          THEN {Resp(TRUE, TRUE, "data", v) : v \in {Whole(0), Whole(-1), Whole(1), Whole(2), Undef}}
          ELSE {Resp(TRUE, TRUE, "data", Str(t)) : t \in PriceTexts})

fetchBinance(r) ==
    IF Rejects(r) THEN Threw
    ELSE IF r.json = "empty" THEN ParseFloat(Undef)
    ELSE ParseFloat(r.val)

fetchKraken(r) ==
    IF Rejects(r) \/ r.json = "empty" THEN Threw ELSE ParseFloat(r.val)

fetchCoinbase(r) ==
    IF Rejects(r) \/ r.json = "empty" THEN Threw ELSE ParseFloat(r.val)

fetchBybit(r) ==
    IF Rejects(r) \/ r.json = "empty" THEN Threw ELSE ParseFloat(r.val)

fetchOKX(r) ==
    IF Rejects(r) \/ r.json = "empty" THEN Threw ELSE ParseFloat(r.val)

fetchCoinGecko(r) ==
    IF Rejects(r) \/ r.json = "empty" THEN Threw ELSE r.val

SpotFetch(name, r) ==
    CASE name = "Binance"   -> fetchBinance(r)
      [] name = "Kraken"    -> fetchKraken(r)
      [] name = "Coinbase"  -> fetchCoinbase(r)
      [] name = "Bybit"     -> fetchBybit(r)
      [] name = "OKX"       -> fetchOKX(r)
      [] name = "CoinGecko" -> fetchCoinGecko(r)

\* SpotAccepted without the comparison with 0: any truthy value is returned
SpotAcceptedTruthy(price) == price # Threw /\ Truthy(price)

\* the test `price && price > 0` of fetchBTCPrice
SpotAccepted(price) == price # Threw /\ Truthy(price) /\ FGt(price, Whole(0))

\* SpotLoopStep without the return inside the loop: every source is called
\* and the value of the last one decides
SpotLoopStepNoEarlyReturn(accepted, i, n) ==
    IF i < n THEN "continue" ELSE IF accepted THEN "return" ELSE "exhausted"

\* how a turn of the loop of fetchBTCPrice ends (lines 28-40): the return
\* inside the loop, the return null behind it, or the next turn
SpotLoopStep(accepted, i, n) ==
    IF accepted THEN "return" ELSE IF i = n THEN "exhausted" ELSE "continue"

NoResponse == [status |-> 0, error |-> "", body |-> Undef]

\* NextResponse.json(body, {status})
JsonResponse(status, error, body) == [status |-> status, error |-> error, body |-> body]

\* JSON.stringify of a number: NaN and the infinities are written as null
JsonNumber(x) == IF x.k \in {"nan", "inf"} THEN Null ELSE x

\* lines 8-11 of GET: the response for the value fetchBTCPrice returned
PriceResponse(price) ==
    IF ~Truthy(price)
    THEN JsonResponse(500, "All price sources failed", Undef)
    ELSE JsonResponse(200, "", [price |-> JsonNumber(price), source |-> "multi-source-fallback"])

-----------------------------------------------------------------------------
(* Indicator engine of /api/btc-analysis.  Arrays are sequences; At reads   *)
(* with the 0-based index of the source, undefined outside the array.       *)

At(a, i) == IF i >= 0 /\ i < Len(a) THEN a[i + 1] ELSE Undef

\* Array.prototype.slice(-n): the last n elements, all of them when shorter
SliceLast(a, n) == IF Len(a) <= n THEN a ELSE SubSeq(a, Len(a) - n + 1, Len(a))

\* Array.prototype.slice(0, -1)
DropLast(a) == IF Len(a) = 0 THEN a ELSE SubSeq(a, 1, Len(a) - 1)

RSIPeriod == 14
EMAFast == 12
EMASlow == 26
BBPeriod == 20
ATRPeriod == 14
SRWindow == 50
VolWindow == 24

\* the loop of calculateRSI from index i on.  gains is never NaN (a NaN diff
\* goes to losses), so the first test only makes TLC evaluate both sums at
\* every turn instead of nesting them.
RECURSIVE RSILoop(_, _, _, _)
RSILoop(p, i, gains, losses) ==
    IF {gains.k, losses.k} = {"nan"} \/ i >= Len(p)
    THEN [gains |-> gains, losses |-> losses]
    ELSE LET diff == FSub(At(p, i), At(p, i - 1))
         IN  IF FGt(diff, Whole(0))
             THEN RSILoop(p, i + 1, FAdd(gains, diff), losses)
             ELSE RSILoop(p, i + 1, gains, FSub(losses, diff))

calculateRSI(p) ==
    LET acc     == RSILoop(p, Len(p) - RSIPeriod, Whole(0), Whole(0))
        avgGain == FDiv(acc.gains, Whole(RSIPeriod))
        avgLoss == FDiv(acc.losses, Whole(RSIPeriod))
        rs      == FDiv(avgGain, avgLoss)
    IN  FSub(Whole(100), FDiv(Whole(100), FAdd(Whole(1), rs)))

\* the loop of calculateEMA from index i on; a NaN average stays NaN
RECURSIVE EMALoop(_, _, _, _)
EMALoop(p, i, k, ema) ==
    IF i >= Len(p) \/ ema.k = "nan" THEN ema
    ELSE EMALoop(p, i + 1, k, FAdd(FMul(At(p, i), k), FMul(ema, FSub(Whole(1), k))))

calculateEMA(p, period) ==
    EMALoop(p, Len(p) - period + 1, Num(2, period + 1), At(p, Len(p) - period))

calculateMACD(p) == FSub(calculateEMA(p, EMAFast), calculateEMA(p, EMASlow))

\* integer square root, rounded down
RECURSIVE ISqrtIter(_, _)
ISqrtIter(n, x) ==
    LET y == (x + n \div x) \div 2
    IN  IF y >= x THEN x ELSE ISqrtIter(n, y)

ISqrt(n) == IF n < 2 THEN n ELSE ISqrtIter(n, n)

\* Math.sqrt: exact on the square of a rational, otherwise cut to two decimals
FSqrt(a) ==
    LET x == ToNumber(a)
    IN  IF IsNaN(x) THEN NaN
        ELSE IF IsInf(x) THEN (IF x.s = 1 THEN PInf ELSE NaN)
        ELSE IF x.n < 0 THEN NaN
        ELSE LET rn == ISqrt(x.n)
                 rd == ISqrt(x.d)
             IN  IF rn * rn = x.n /\ rd * rd = x.d THEN Num(rn, rd)
                 ELSE Num(ISqrt((x.n * 10000) \div x.d), 100)

\* reduce((a, b) => a + b) from element i on, acc the accumulator so far; a
\* NaN sum stays NaN
RECURSIVE SumFrom(_, _, _)
SumFrom(a, i, acc) ==
    IF i > Len(a) \/ acc.k = "nan" THEN acc ELSE SumFrom(a, i + 1, FAdd(acc, a[i]))

\* reduce((a, p) => a + Math.pow(p - sma, 2)) without an initial value: the
\* accumulator starts as the first element and the callback runs from the second
RECURSIVE SqDevFrom(_, _, _, _)
SqDevFrom(a, i, sma, acc) ==
    IF i > Len(a) \/ acc.k = "nan" THEN acc
    ELSE LET dv == FSub(a[i], sma)
         IN  SqDevFrom(a, i + 1, sma, FAdd(acc, FMul(dv, dv)))

\* the `variance` local of calculateBollingerBands
BBVariance(p) ==
    LET recentPrices == SliceLast(p, BBPeriod)
        sma          == FDiv(SumFrom(recentPrices, 2, recentPrices[1]), Whole(BBPeriod))
    IN  FDiv(SqDevFrom(recentPrices, 2, sma, recentPrices[1]), Whole(BBPeriod))

\* calculateBollingerBands with the two signs of line 145 exchanged
calculateBollingerBandsSwapped(p) ==
    IF Len(p) = 0 THEN Threw
    ELSE LET recentPrices == SliceLast(p, BBPeriod)
             sma          == FDiv(SumFrom(recentPrices, 2, recentPrices[1]), Whole(BBPeriod))
             stdDev       == FSqrt(BBVariance(p))
         IN  [upper  |-> FSub(sma, FMul(stdDev, Whole(2))),
              middle |-> sma,
              lower  |-> FAdd(sma, FMul(stdDev, Whole(2)))]

\* reduce without an initial value throws a TypeError on an empty array
calculateBollingerBands(p) ==
    IF Len(p) = 0 THEN Threw
    ELSE LET recentPrices == SliceLast(p, BBPeriod)
             sma          == FDiv(SumFrom(recentPrices, 2, recentPrices[1]), Whole(BBPeriod))
             stdDev       == FSqrt(BBVariance(p))
         IN  [upper  |-> FAdd(sma, FMul(stdDev, Whole(2))),
              middle |-> sma,
              lower  |-> FSub(sma, FMul(stdDev, Whole(2)))]

\* the array `tr` of calculateATR: |prices[i] - prices[i-1]| for i = 1 .. length-1
TrueRanges(p) ==
    IF Len(p) < 2 THEN <<>>
    ELSE [i \in 1..(Len(p) - 1) |-> FAbs(FSub(At(p, i), At(p, i - 1)))]

calculateATR(p) ==
    LET recentTR == SliceLast(TrueRanges(p), ATRPeriod)
    IN  FDiv(SumFrom(recentTR, 1, Whole(0)), Whole(ATRPeriod))

\* Math.floor of a finite number
Floor(x) == x.n \div x.d

\* v put into the ascending sequence acc behind the elements not above it
InsertAsc(acc, v) ==
    LET pos == Cardinality({j \in 1..Len(acc) : ~FLt(v, acc[j])})
    IN  SubSeq(acc, 1, pos) \o <<v>> \o SubSeq(acc, pos + 1, Len(acc))

\* [...a].sort((x, y) => x - y) for an array of numbers, as the stable
\* insertion of a[i], a[i+1], ... into the sorted acc; acc holds i-1 elements
RECURSIVE SortFrom(_, _, _)
SortFrom(a, i, acc) ==
    IF i > Len(a) \/ Len(acc) # i - 1 THEN acc ELSE SortFrom(a, i + 1, InsertAsc(acc, a[i]))

\* SortAsc without the sort: the copy of the window in arrival order
SortAscUnsorted(a) == a

SortAsc(a) == SortFrom(a, 1, <<>>)

\* Math.max(...a) from element i on, acc the largest so far: -Infinity on an
\* empty array, NaN as soon as an element is NaN
RECURSIVE MaxFrom(_, _, _)
MaxFrom(a, i, acc) ==
    IF i > Len(a) \/ acc.k = "nan" THEN acc ELSE MaxFrom(a, i + 1, FMax(acc, a[i]))

\* Math.min(...a): +Infinity on an empty array
RECURSIVE MinFrom(_, _, _)
MinFrom(a, i, acc) ==
    IF i > Len(a) \/ acc.k = "nan" THEN acc ELSE MinFrom(a, i + 1, FMin(acc, a[i]))

\* index into the sorted window of the lower and of the upper percentile
Support2Index(n) == Floor(FMul(Whole(n), Num(25, 100)))
Resistance2Index(n) == Floor(FMul(Whole(n), Num(75, 100)))

calculateSupportResistance(p) ==
    LET recentPrices == SliceLast(p, SRWindow)
        sorted       == SortAsc(recentPrices)
    IN  [resistance  |-> MaxFrom(recentPrices, 1, NInf),
         resistance2 |-> At(sorted, Resistance2Index(Len(sorted))),
         support     |-> MinFrom(recentPrices, 1, PInf),
         support2    |-> At(sorted, Support2Index(Len(sorted)))]

\* lines 23-25 of GET: last volume over the mean of the last 24 volumes
VolumeRatio(volumes) ==
    LET avgVolume     == FDiv(SumFrom(SliceLast(volumes, VolWindow), 1, Whole(0)), Whole(VolWindow))
        currentVolume == At(volumes, Len(volumes) - 1)
    IN  FDiv(currentVolume, avgVolume)

-----------------------------------------------------------------------------
(* Prediction generator                                                     *)

timeframes ==
    << [label |-> "1h", hours |-> 1, volatilityMultiplier |-> Num(5, 10)],
       [label |-> "2h", hours |-> 2, volatilityMultiplier |-> Num(7, 10)],
       [label |-> "3h", hours |-> 3, volatilityMultiplier |-> Num(85, 100)],
       [label |-> "5h", hours |-> 5, volatilityMultiplier |-> Whole(1)] >>

\* the accumulator of one timeframe before the first rule (lines 326-329)
StartScore(a) ==
    [direction |-> "neutral", priceTarget |-> a.currentPrice,
     confidence |-> Num(5, 10), reasoning |-> <<>>]

\* one matched branch: new direction, confidence gain, label, new target
Hit(st, dir, gain, label, target) ==
    [direction |-> dir, priceTarget |-> target,
     confidence |-> FAdd(st.confidence, gain), reasoning |-> Append(st.reasoning, label)]

\* lines 333-343
RuleRSI(st, a) ==
    IF FGt(a.rsi, Whole(70))
    THEN Hit(st, "down", Num(15, 100), "RSI overbought",
             FSub(st.priceTarget, FMul(a.atr, Num(15, 10))))
    ELSE IF FLt(a.rsi, Whole(30))
    THEN Hit(st, "up", Num(15, 100), "RSI oversold",
             FAdd(st.priceTarget, FMul(a.atr, Num(15, 10))))
    ELSE st

\* RuleMACD with the confidence gain outside the direction test: 0.12 is
\* added whenever a MACD branch matches
RuleMACDAlwaysGains(st, a) ==
    IF FGt(a.macd, Whole(0))
    THEN Hit(st, IF st.direction # "down" THEN "up" ELSE st.direction, Num(12, 100),
             "MACD positive", FAdd(st.priceTarget, FMul(a.atr, Num(8, 10))))
    ELSE IF FLt(a.macd, Whole(-50))
    THEN Hit(st, IF st.direction # "up" THEN "down" ELSE st.direction, Num(12, 100),
             "MACD negative", FSub(st.priceTarget, FMul(a.atr, Num(8, 10))))
    ELSE st

\* RuleMACD with the whole branch inside the direction test: nothing
\* happens when the direction set so far opposes the MACD sign
RuleMACDSkipsWhenOpposed(st, a) ==
    IF FGt(a.macd, Whole(0)) /\ st.direction # "down"
    THEN Hit(st, "up", Num(12, 100), "MACD positive",
             FAdd(st.priceTarget, FMul(a.atr, Num(8, 10))))
    ELSE IF ~FGt(a.macd, Whole(0)) /\ FLt(a.macd, Whole(-50)) /\ st.direction # "up"
    THEN Hit(st, "down", Num(12, 100), "MACD negative",
             FSub(st.priceTarget, FMul(a.atr, Num(8, 10))))
    ELSE st

\* lines 345-359: direction and confidence change only when the direction set
\* so far does not oppose the MACD sign; label and target change in any case
RuleMACD(st, a) ==
    IF FGt(a.macd, Whole(0))
    THEN Hit(st, IF st.direction # "down" THEN "up" ELSE st.direction,
             IF st.direction # "down" THEN Num(12, 100) ELSE Whole(0),
             "MACD positive", FAdd(st.priceTarget, FMul(a.atr, Num(8, 10))))
    ELSE IF FLt(a.macd, Whole(-50))
    THEN Hit(st, IF st.direction # "up" THEN "down" ELSE st.direction,
             IF st.direction # "up" THEN Num(12, 100) ELSE Whole(0),
             "MACD negative", FSub(st.priceTarget, FMul(a.atr, Num(8, 10))))
    ELSE st

\* RuleBands that sets the direction only when no earlier rule has set one
RuleBandsKeepsDirection(st, a) ==
    IF FGt(a.currentPrice, FMul(a.bbands.upper, Num(102, 100)))
    THEN Hit(st, IF st.direction = "neutral" THEN "down" ELSE st.direction,
             Num(2, 10), "Price at resistance", a.supportResistance.support2)
    ELSE IF FLt(a.currentPrice, FMul(a.bbands.lower, Num(98, 100)))
    THEN Hit(st, IF st.direction = "neutral" THEN "up" ELSE st.direction,
             Num(2, 10), "Price at support", a.supportResistance.resistance2)
    ELSE st

\* lines 361-371
RuleBands(st, a) ==
    IF FGt(a.currentPrice, FMul(a.bbands.upper, Num(102, 100)))
    THEN Hit(st, "down", Num(2, 10), "Price at resistance", a.supportResistance.support2)
    ELSE IF FLt(a.currentPrice, FMul(a.bbands.lower, Num(98, 100)))
    THEN Hit(st, "up", Num(2, 10), "Price at support", a.supportResistance.resistance2)
    ELSE st

\* lines 373-381
RuleVolume(st, a) ==
    IF FGt(a.volumeRatio, Num(15, 10)) /\ st.direction = "up"
    THEN Hit(st, st.direction, Num(15, 100), "High volume bullish",
             FMul(st.priceTarget, Num(101, 100)))
    ELSE IF FGt(a.volumeRatio, Num(15, 10)) /\ st.direction = "down"
    THEN Hit(st, st.direction, Num(15, 100), "High volume bearish",
             FMul(st.priceTarget, Num(99, 100)))
    ELSE st

\* lines 383-392
RuleSentiment(st, a) ==
    LET avgSentiment == FDiv(FAdd(a.sentiment.reddit, a.sentiment.x), Whole(2))
    IN  IF FGt(avgSentiment, Num(2, 10))
        THEN Hit(st, st.direction, Num(1, 10), "Strong bullish sentiment",
                 FMul(st.priceTarget, Num(1005, 1000)))
        ELSE IF FLt(avgSentiment, Num(-2, 10))
        THEN Hit(st, st.direction, Num(1, 10), "Strong bearish sentiment",
                 FMul(st.priceTarget, Num(995, 1000)))
        ELSE st

\* lines 394-402
RuleNews(st, a) ==
    IF FGt(a.newsSentiment, Num(3, 10))
    THEN Hit(st, st.direction, Num(8, 100), "Positive news",
             FMul(st.priceTarget, Num(1003, 1000)))
    ELSE IF FLt(a.newsSentiment, Num(-3, 10))
    THEN Hit(st, st.direction, Num(8, 100), "Negative news",
             FMul(st.priceTarget, Num(997, 1000)))
    ELSE st

\* the accumulator after the six rules in source order
Scored(a) ==
    RuleNews(RuleSentiment(RuleVolume(RuleBands(RuleMACD(RuleRSI(StartScore(a), a), a), a), a), a), a)

\* ClampConfidence without Math.max / Math.min
ClampConfidenceOff(c) == c

\* line 404
ClampConfidence(c) == FMax(Num(5, 10), FMin(Num(95, 100), c))

\* reasoning.join(' + '): the labels with the separator between neighbours
RECURSIVE Join(_, _)
Join(labels, sep) ==
    IF Len(labels) = 0 THEN <<>>
    ELSE IF Len(labels) = 1 THEN labels
    ELSE <<Head(labels), sep>> \o Join(Tail(labels), sep)

\* line 410
RiskReward(rewardAmount, riskAmount) == FDiv(rewardAmount, riskAmount)

\* PredictFor with the stop distance scaled by the volatilityMultiplier of
\* the timeframe
PredictForScaled(tf, a) ==
    LET st           == Scored(a)
        stopDistance == FMul(FMul(a.atr, Whole(2)), tf.volatilityMultiplier)
        stopLoss     == IF st.direction = "up"
                        THEN FSub(a.currentPrice, stopDistance)
                        ELSE FAdd(a.currentPrice, stopDistance)
        riskAmount   == FAbs(FSub(a.currentPrice, stopLoss))
        rewardAmount == FAbs(FSub(st.priceTarget, a.currentPrice))
    IN  [timeframe  |-> tf.label,
         prediction |-> ToFixed(st.priceTarget, 2),
         direction  |-> st.direction,
         confidence |-> ToFixed(FMul(ClampConfidence(st.confidence), Whole(100)), 1),
         reasoning  |-> Join(st.reasoning, " + "),
         riskReward |-> ToFixed(RiskReward(rewardAmount, riskAmount), 2),
         stopLoss   |-> ToFixed(stopLoss, 2),
         takeProfit |-> ToFixed(st.priceTarget, 2)]

\* the callback of timeframes.map (lines 325-422)
PredictFor(tf, a) ==
    LET volatilityAdj == FMul(FDiv(a.atr, a.currentPrice), tf.volatilityMultiplier)
        st            == Scored(a)
        confidence    == ClampConfidence(st.confidence)
        stopLoss      == IF st.direction = "up"
                         THEN FSub(a.currentPrice, FMul(a.atr, Whole(2)))
                         ELSE FAdd(a.currentPrice, FMul(a.atr, Whole(2)))
        takeProfit    == st.priceTarget
        riskAmount    == FAbs(FSub(a.currentPrice, stopLoss))
        rewardAmount  == FAbs(FSub(takeProfit, a.currentPrice))
        riskReward    == RiskReward(rewardAmount, riskAmount)
    IN  [timeframe  |-> tf.label,
         prediction |-> ToFixed(st.priceTarget, 2),
         direction  |-> st.direction,
         confidence |-> ToFixed(FMul(confidence, Whole(100)), 1),
         reasoning  |-> Join(st.reasoning, " + "),
         riskReward |-> ToFixed(riskReward, 2),
         stopLoss   |-> ToFixed(stopLoss, 2),
         takeProfit |-> ToFixed(takeProfit, 2)]

generatePredictions(a) == [i \in 1..Len(timeframes) |-> PredictFor(timeframes[i], a)]

-----------------------------------------------------------------------------
(* History sources of /api/btc-analysis                                     *)

HistSources == <<"Binance", "Kraken", "CoinGecko">>

\* candles asked of a source: limit=168 (Binance), 7 days of hourly candles
HistLen == 168

\* a JSON array
Arr(a) == [k |-> "arr", a |-> a]

\* a candle: open time, close (candle[4]) and the member read as volume
\* (candle[7]); the exchanges send close and volume as texts
Candle(t, close, vol) == [t |-> t, close |-> Str(close), vol |-> Str(vol)]

\* close and volume of the last two candles of a full list: flat, a fall
\* then a rise on high volume, a rise then a fall
TailSeqs ==
    { << <<"2", "1">>, <<"2", "1">> >>,
      << <<"1", "1">>, <<"3", "3">> >>,
      << <<"3", "1">>, <<"1", "1">> >> }

\* HistLen candles: a flat run at close 2, volume 1, then the tail
CandleList(tail) ==
    [i \in 1..HistLen |->
        IF i <= HistLen - Len(tail)
        THEN Candle(i, "2", "1")
        ELSE Candle(i, tail[i - (HistLen - Len(tail))][1], tail[i - (HistLen - Len(tail))][2])]

\* candle lists a source may send with a success status: full ones, an empty
\* one, and one holding a single candle
CandleLists == {CandleList(tl) : tl \in TailSeqs} \cup {<<>>, <<Candle(1, "2", "1")>>}

\* what the history endpoint of a source may answer; "empty" is a JSON object
\* without the expected members
HistResponses(name) ==
    {NetFail, BadStatus, BadJson, EmptyObj}
    \cup {Resp(TRUE, TRUE, "data", Arr(c)) : c \in CandleLists}

\* candles.map(c => [time, parseFloat(c[member])])
PairsOf(candles, scale, member) ==
    [i \in 1..Len(candles) |->
        <<candles[i].t * scale,
          ParseFloat(IF member = "close" THEN candles[i].close ELSE candles[i].vol)>>]

\* lines 79-88; a payload that is no array has no map method
fetchBinanceHistory(r) ==
    IF Rejects(r) \/ r.json = "empty" THEN Threw
    ELSE [k |-> "series", prices |-> Arr(PairsOf(r.val.a, 1, "close")),
          volumes |-> Arr(PairsOf(r.val.a, 1, "vol"))]

\* lines 90-102; the last candle of the answer is dropped
fetchKrakenHistory(r) ==
    IF Rejects(r) \/ r.json = "empty" THEN Threw
    ELSE LET candles == DropLast(r.val.a)
         IN  [k |-> "series", prices |-> Arr(PairsOf(candles, 1000, "close")),
              volumes |-> Arr(PairsOf(candles, 1000, "vol"))]

\* CoinGecko sends [time, number] pairs under prices and total_volumes
CoinGeckoPairs(candles, member) == PairsOf(candles, 1, member)

\* lines 104-110: the two members are handed on as they are, also when absent
fetchCoinGeckoHistory(r) ==
    IF Rejects(r) THEN Threw
    ELSE IF r.json = "empty" THEN [k |-> "series", prices |-> Undef, volumes |-> Undef]
    ELSE [k |-> "series", prices |-> Arr(CoinGeckoPairs(r.val.a, "close")),
          volumes |-> Arr(CoinGeckoPairs(r.val.a, "vol"))]

HistFetch(name, r) ==
    CASE name = "Binance"   -> fetchBinanceHistory(r)
      [] name = "Kraken"    -> fetchKrakenHistory(r)
      [] name = "CoinGecko" -> fetchCoinGeckoHistory(r)

\* the test `if (data)` of fetchHistoricalData: an object is truthy
HistAccepted(data) == data # Threw

\* how a turn of the loop of fetchHistoricalData ends (lines 64-76)
HistLoopStep(accepted, i, n) ==
    IF accepted THEN "return" ELSE IF i = n THEN "exhausted" ELSE "continue"

\* a.map(p => p[1])
Seconds(a) == [i \in 1..Len(a) |-> a[i][2]]

NoIndicators == [k |-> "none"]

\* lines 12-25 of GET: Threw when a TypeError is raised on the way
Indicators(historyData) ==
    IF historyData.prices.k # "arr" \/ historyData.volumes.k # "arr" THEN Threw
    ELSE LET p == Seconds(historyData.prices.a)
             v == Seconds(historyData.volumes.a)
             bbands == calculateBollingerBands(p)
         IN  IF bbands = Threw THEN Threw
             ELSE [k |-> "ind",
                   currentPrice |-> At(p, Len(p) - 1),
                   rsi |-> calculateRSI(p),
                   macd |-> calculateMACD(p),
                   bbands |-> bbands,
                   atr |-> calculateATR(p),
                   supportResistance |-> calculateSupportResistance(p),
                   volumeRatio |-> VolumeRatio(v)]

-----------------------------------------------------------------------------
(* Signal aggregator                                                        *)

\* Math.max(-1, Math.min(1, x))
ClampUnit(x) == FMax(Whole(-1), FMin(Whole(1), x))

\* answers of the CoinTrendz endpoint: failures, an object without the
\* sentiment member, and a sentiment score on the 0..100 scale
CoinTrendzResponses ==
    {NetFail, BadStatus, BadJson, EmptyObj}
    \cup {Resp(TRUE, TRUE, "data", Whole(90))}

\* lines 196-211
fetchCoinTrendzSentiment(r) ==
    IF Rejects(r) THEN Whole(0)
    ELSE LET member    == IF r.json = "empty" THEN Undef ELSE r.val
             sentiment == FDiv(FSub(member, Whole(50)), Whole(50))
         IN  ClampUnit(sentiment)

\* answers of the Santiment endpoint: failures, an object without
\* data.crowdsentiment, an empty list, and lists whose last entry carries a
\* sentiment out of range, or none
SantimentResponses ==
    {NetFail, BadStatus, BadJson, EmptyObj}
    \cup {Resp(TRUE, TRUE, "data", Arr(a)) :
            a \in {<<>>, <<[sentiment |-> Whole(-3)]>>,
                   <<[sentiment |-> Whole(1)], [sentiment |-> Undef]>>}}

\* lines 213-237
fetchSantimentSentiment(r) ==
    IF Rejects(r) THEN Whole(0)
    ELSE IF r.json = "data" /\ Len(r.val.a) > 0
    THEN ClampUnit(At(r.val.a, Len(r.val.a) - 1).sentiment)
    ELSE Whole(0)

\* lines 182-194: both fetchers settle their own failures, Promise.all
\* never rejects
fetchSentiment(rct, rsan) ==
    [reddit |-> fetchCoinTrendzSentiment(rct), x |-> fetchSantimentSentiment(rsan)]

\* parseInt of the texts the modelled payloads carry: the leading digits
ParseInt(v) ==
    IF v.k = "str"
    THEN CASE v.t = "3"  -> Whole(3)
           [] v.t = "70" -> Whole(70)
           [] v.t = "429 Too Many Requests" -> Whole(429)
           [] OTHER      -> NaN
    ELSE IF v.k \in {"und", "null"} THEN NaN
    ELSE v

\* answers of the fear-and-greed endpoint; the status is not looked at, so
\* a failure status is listed with every body
FearGreedResponses ==
    {NetFail}
    \cup {BadStatus, BadJson, EmptyObj}
    \cup {Resp(TRUE, ok, "data", Arr(<<[value |-> Str("70")]>>)) : ok \in BOOLEAN}

\* answers of the transaction-rate endpoint, a plain text
TxRateResponses ==
    {NetFail}
    \cup {Resp(TRUE, TRUE, "data", Str("3")),
          Resp(TRUE, FALSE, "data", Str("Service Unavailable")),
          Resp(TRUE, FALSE, "data", Str("429 Too Many Requests"))}

DefaultMetrics ==
    [whaleTransactions |-> Whole(0), activeAddresses |-> Whole(0), exchangeInflow |-> Whole(0),
     exchangeOutflow |-> Whole(0), mempoolSize |-> Whole(0), fearGreedIndex |-> Whole(0),
     largeTransactions |-> <<>>, txVolume24h |-> Whole(0), networkHealth |-> "good"]

\* lines 253-261
FearGreedIndex(r) ==
    IF ~r.net \/ r.json = "bad" THEN DefaultMetrics.fearGreedIndex
    ELSE IF r.json = "data" /\ Len(r.val.a) > 0
    THEN FDiv(FSub(ParseInt(r.val.a[1].value), Whole(50)), Whole(50))
    ELSE DefaultMetrics.fearGreedIndex

\* lines 263-269
MempoolSize(r) ==
    IF ~r.net THEN DefaultMetrics.mempoolSize ELSE OrZero(ParseInt(r.val))

\* lines 239-276
fetchOnchainMetrics(rfg, rtx) ==
    [DefaultMetrics EXCEPT !.fearGreedIndex = FearGreedIndex(rfg), !.mempoolSize = MempoolSize(rtx)]

\* title.toLowerCase().includes(word), for the modelled headlines
Includes(title, word) ==
    CASE word = "bull"  -> title \in {"Bitcoin bulls are back", "Bull trap ends in crash"}
      [] word = "surge" -> title \in {"ETF inflows surge"}
      [] word = "crash" -> title \in {"Bull trap ends in crash", "Flash crash hits BTC"}
      [] word = "fall"  -> title \in {"Prices fall again"}

\* a post of the CryptoPanic answer; title is Undef when the member is absent
Post(kind, title) == [kind |-> kind, title |-> title]

\* the body of the forEach callback (lines 289-292); Threw when title is absent
ScorePost(news) ==
    IF news.kind # "news" THEN Whole(0)
    ELSE IF news.title.k # "str" THEN Threw
    ELSE FAdd(IF Includes(news.title.t, "bull") \/ Includes(news.title.t, "surge")
              THEN Whole(1) ELSE Whole(0),
              IF Includes(news.title.t, "crash") \/ Includes(news.title.t, "fall")
              THEN Whole(-1) ELSE Whole(0))

RECURSIVE ScorePosts(_, _, _)
ScorePosts(results, i, acc) ==
    IF i > Len(results) THEN acc
    ELSE IF ScorePost(results[i]) = Threw THEN Threw
    ELSE ScorePosts(results, i + 1, FAdd(acc, ScorePost(results[i])))

\* answers of the CryptoPanic endpoint
NewsResponses ==
    {NetFail, BadStatus, EmptyObj}
    \cup {Resp(TRUE, TRUE, "data", Arr(a)) :
            a \in {<<Post("news", Str("Bitcoin bulls are back"))>>,
                   <<Post("news", Str("Flash crash hits BTC")), Post("news", Str("Prices fall again"))>>,
                   <<Post("news", Str("Bull trap ends in crash")), Post("media", Undef)>>,
                   <<Post("news", Str("ETF inflows surge")), Post("news", Undef)>>}}

\* lines 278-302
fetchNewsSentiment(r) ==
    IF Rejects(r) THEN Whole(0)
    ELSE IF r.json = "data" /\ Len(r.val.a) > 0
    THEN LET sentiment == ScorePosts(r.val.a, 1, Whole(0))
         IN  IF sentiment = Threw THEN Whole(0)
             ELSE ClampUnit(FDiv(sentiment, Whole(Len(r.val.a))))
    ELSE Whole(0)

-----------------------------------------------------------------------------
(* The request handlers                                                     *)

\* a fetch that ended in a network error, a failure status or a body that
\* response.json() cannot parse
Failed(r) == ~r.net \/ ~r.ok \/ r.json = "bad"

NoSignals ==
    [sentiment |-> Undef, onchainMetrics |-> Undef, newsSentiment |-> Undef,
     failed |-> [ct |-> FALSE, san |-> FALSE, fg |-> FALSE, tx |-> FALSE, news |-> FALSE]]

NoPredIn == [k |-> "none"]

Init ==
    /\ pc = "idle"
    /\ route = "none"
    /\ idx = 0
    /\ invoked = <<>>
    /\ fetched = Undef
    /\ ind = NoIndicators
    /\ sig = NoSignals
    /\ predIn = NoPredIn
    /\ predOut = <<>>
    /\ response = NoResponse
    /\ prices = <<>>
    /\ indOut = NoIndicators

\* a request for /api/btc-price arrives: GET calls fetchBTCPrice
GetPrice ==
    /\ pc = "idle"
    /\ pc' = "fetchBTCPrice"
    /\ route' = "price"
    /\ idx' = 1
    /\ UNCHANGED <<invoked, fetched, ind, sig, predIn, predOut, response, prices, indOut>>

\* one turn of the loop of fetchBTCPrice (lines 28-39); when the loop ends,
\* by return or by exhaustion, GET answers (lines 8-11)
TrySpotSource ==
    /\ pc = "fetchBTCPrice"
    /\ idx <= Len(SpotSources)
    /\ \E r \in SpotResponses(SpotSources[idx]) :
         LET price == SpotFetch(SpotSources[idx], r)
             step  == SpotLoopStep(SpotAccepted(price), idx, Len(SpotSources))
         IN  /\ invoked' = Append(invoked, [name |-> SpotSources[idx], produced |-> price])
             /\ IF step = "return"
                THEN /\ fetched' = price
                     /\ response' = PriceResponse(price)
                     /\ pc' = "done"
                     /\ idx' = idx
                ELSE IF step = "exhausted"
                THEN /\ fetched' = Null
                     /\ response' = PriceResponse(Null)
                     /\ pc' = "done"
                     /\ idx' = idx + 1
                ELSE /\ idx' = idx + 1
                     /\ UNCHANGED <<fetched, response, pc>>
    /\ UNCHANGED <<route, ind, sig, predIn, predOut, prices, indOut>>

\* a request for /api/btc-analysis arrives: GET calls fetchHistoricalData
GetAnalysis ==
    /\ pc = "idle"
    /\ pc' = "fetchHistoricalData"
    /\ route' = "analysis"
    /\ idx' = 1
    /\ UNCHANGED <<invoked, fetched, ind, sig, predIn, predOut, response, prices, indOut>>

\* one turn of the loop of fetchHistoricalData (lines 64-75).  When the loop
\* ends GET goes on to its next await: it answers 500 on null (lines 8-10),
\* else computes the indicators (lines 12-25), answering 500 from the catch
\* block when that throws, and calls fetchSentiment.
TryHistorySource ==
    /\ pc = "fetchHistoricalData"
    /\ idx <= Len(HistSources)
    /\ \E r \in HistResponses(HistSources[idx]) :
         LET data == HistFetch(HistSources[idx], r)
             step == HistLoopStep(HistAccepted(data), idx, Len(HistSources))
         IN  /\ invoked' = Append(invoked, [name |-> HistSources[idx], produced |-> data])
             /\ IF step = "return"
                THEN /\ fetched' = data
                     /\ idx' = idx
                     /\ ind' = Indicators(data)
                     /\ IF Indicators(data) = Threw
                        THEN /\ response' = JsonResponse(500, "Analysis failed", Undef)
                             /\ pc' = "done"
                        ELSE /\ pc' = "fetchSentiment"
                             /\ UNCHANGED response
                ELSE IF step = "exhausted"
                THEN /\ fetched' = Null
                     /\ response' = JsonResponse(500, "Failed to fetch historical data", Undef)
                     /\ pc' = "done"
                     /\ idx' = idx + 1
                     /\ UNCHANGED ind
                ELSE /\ idx' = idx + 1
                     /\ UNCHANGED <<fetched, response, pc, ind>>
    /\ UNCHANGED <<route, sig, predIn, predOut, prices, indOut>>

\* line 27: await fetchSentiment()
FetchSentiment ==
    /\ pc = "fetchSentiment"
    /\ \E rct \in CoinTrendzResponses, rsan \in SantimentResponses :
         sig' = [sig EXCEPT !.sentiment = fetchSentiment(rct, rsan),
                            !.failed.ct = Failed(rct), !.failed.san = Failed(rsan)]
    /\ pc' = "fetchOnchainMetrics"
    /\ UNCHANGED <<route, idx, invoked, fetched, ind, predIn, predOut, response, prices, indOut>>

\* line 28: await fetchOnchainMetrics()
FetchOnchainMetrics ==
    /\ pc = "fetchOnchainMetrics"
    /\ \E rfg \in FearGreedResponses, rtx \in TxRateResponses :
         sig' = [sig EXCEPT !.onchainMetrics = fetchOnchainMetrics(rfg, rtx),
                            !.failed.fg = Failed(rfg), !.failed.tx = Failed(rtx)]
    /\ pc' = "fetchNewsSentiment"
    /\ UNCHANGED <<route, idx, invoked, fetched, ind, predIn, predOut, response, prices, indOut>>

\* the arguments of the generatePredictions call of line 32
PredArgs(i, sentiment, newsSentiment) ==
    [currentPrice |-> i.currentPrice, rsi |-> i.rsi, macd |-> i.macd, bbands |-> i.bbands,
     atr |-> i.atr, supportResistance |-> i.supportResistance, sentiment |-> sentiment,
     volumeRatio |-> i.volumeRatio, newsSentiment |-> newsSentiment]

\* JSON.stringify of one prediction
JsonPrediction(p) ==
    [p EXCEPT !.prediction = JsonNumber(@), !.confidence = JsonNumber(@),
              !.riskReward = JsonNumber(@), !.stopLoss = JsonNumber(@),
              !.takeProfit = JsonNumber(@)]

\* lines 34-50: the body of the success response
AnalysisBody(predictions, s) ==
    [predictions   |-> [i \in 1..Len(predictions) |-> JsonPrediction(predictions[i])],
     sentiment     |-> [reddit |-> JsonNumber(s.sentiment.reddit), x |-> JsonNumber(s.sentiment.x)],
     newsSentiment |-> JsonNumber(s.newsSentiment)]

\* line 29: await fetchNewsSentiment(), then lines 30-50: the predictions
\* are generated and the response is sent
FetchNewsSentiment ==
    /\ pc = "fetchNewsSentiment"
    /\ \E rn \in NewsResponses :
         LET s    == [sig EXCEPT !.newsSentiment = fetchNewsSentiment(rn), !.failed.news = Failed(rn)]
             args == PredArgs(ind, s.sentiment, s.newsSentiment)
         IN  /\ sig' = s
             /\ predIn' = args
             /\ predOut' = generatePredictions(args)
             /\ response' = JsonResponse(200, "", AnalysisBody(predOut', s))
    /\ pc' = "done"
    /\ UNCHANGED <<route, idx, invoked, fetched, ind, prices, indOut>>

Next ==
    \/ GetPrice
    \/ TrySpotSource
    \/ GetAnalysis
    \/ TryHistorySource
    \/ FetchSentiment
    \/ FetchOnchainMetrics
    \/ FetchNewsSentiment

Spec == Init /\ [][Next]_vars

-----------------------------------------------------------------------------
(* generatePredictions on its own: the arguments are drawn from a grid that *)
(* reaches every branch of every rule, from the worked example of the       *)
(* specification with its free arguments varied, and from arguments with a  *)
(* small ATR.                                                               *)

GridInputs ==
    [currentPrice      : {Whole(50)},
     rsi               : {Whole(25), Whole(50), Whole(75), NaN},
     macd              : {Whole(-60), Whole(-10), Whole(10)},
     bbands            : {[upper |-> Whole(45), middle |-> Whole(42), lower |-> Whole(39)],
                          [upper |-> Whole(54), middle |-> Whole(50), lower |-> Whole(46)],
                          [upper |-> Whole(60), middle |-> Whole(58), lower |-> Whole(56)]},
     atr               : {Whole(0), Whole(10)},
     supportResistance : {[resistance |-> Whole(64), resistance2 |-> Whole(60),
                           support |-> Whole(38), support2 |-> Whole(40)],
                          [resistance |-> Whole(50), resistance2 |-> Whole(50),
                           support |-> Whole(50), support2 |-> Whole(50)]},
     sentiment         : {[reddit |-> r, x |-> x] :
                            r \in {Num(-8, 10), Whole(0), NaN}, x \in {Whole(-1), Whole(1)}},
     volumeRatio       : {Whole(1), Whole(2), NaN},
     newsSentiment     : {Whole(-1), Whole(0), Whole(1)}]

ExampleInputs ==
    [currentPrice      : {Whole(50000)},
     rsi               : {Whole(75)},
     macd              : {Whole(10)},
     bbands            : {[upper |-> Whole(49000), middle |-> Whole(48000), lower |-> lo] :
                            lo \in {Whole(47000), Whole(48000)}},
     atr               : {Whole(500)},
     supportResistance : {[resistance |-> Whole(50000), resistance2 |-> r2,
                           support |-> Whole(47500), support2 |-> s2] :
                            r2 \in {Whole(49500), Whole(50000)},
                            s2 \in {Whole(48000), Num(3880001, 80), Whole(49500)}},
     sentiment         : {[reddit |-> Whole(0), x |-> Whole(0)]},
     volumeRatio       : {Whole(1)},
     newsSentiment     : {Whole(0)}]

\* arguments with an ATR of a quarter of a percent of the price, as hourly
\* candles give, a price inside the bands and every sign of the signals
DriftInputs ==
    [currentPrice      : {Whole(50)},
     rsi               : {Whole(25), Whole(50), Whole(75)},
     macd              : {Whole(-60), Whole(10)},
     bbands            : {[upper |-> Whole(54), middle |-> Whole(50), lower |-> Whole(46)]},
     atr               : {Num(1, 8)},
     supportResistance : {[resistance |-> Whole(64), resistance2 |-> Whole(60),
                           support |-> Whole(38), support2 |-> Whole(40)]},
     sentiment         : {[reddit |-> Num(-8, 10), x |-> Whole(-1)],
                          [reddit |-> Whole(0), x |-> Whole(1)]},
     volumeRatio       : {Whole(1)},
     newsSentiment     : {Whole(-1), Whole(0), Whole(1)}]

PredInputs == GridInputs \cup ExampleInputs \cup DriftInputs

InitPred ==
    /\ pc = "args"
    /\ route = "none"
    /\ idx = 0
    /\ invoked = <<>>
    /\ fetched = Undef
    /\ ind = NoIndicators
    /\ sig = NoSignals
    /\ predIn \in PredInputs
    /\ predOut = <<>>
    /\ response = NoResponse
    /\ prices = <<>>
    /\ indOut = NoIndicators

\* one call of generatePredictions
Generate ==
    /\ pc = "args"
    /\ predOut' = generatePredictions(predIn)
    /\ pc' = "done"
    /\ UNCHANGED <<route, idx, invoked, fetched, ind, sig, predIn, response, prices, indOut>>

NextPred == Generate

SpecPred == InitPred /\ [][NextPred]_vars

-----------------------------------------------------------------------------
(* The indicator functions on their own.  A series starts with one free     *)
(* price, repeats a pattern of PatLen prices and ends in one free price, so *)
(* that flat, rising-only, falling-only and mixed tails all occur and the   *)
(* oldest sample may differ from every sample of the last windows; prices   *)
(* are 1..MaxPrice.                                                         *)
(* calculateMACD is left to the request handler: on a series that is not    *)
(* flat its exact value has a denominator of 13^11 * 27^25.                 *)

MaxPrice == 3
PatLen == 2

\* lengths of the series: shorter than every window, around the 50 of the
\* support/resistance window, and the 168 samples of a full history and more
SeriesLens == {1, 2, 7, 50, 51, 168, 170}

SeriesOf(len, first, pat, last) ==
    [i \in 1..len |->
        Whole(IF i = len THEN last ELSE IF i = 1 THEN first ELSE pat[((i - 1) % PatLen) + 1])]

IndSeries ==
    {SeriesOf(len, first, pat, last) :
        len \in SeriesLens, first \in 1..MaxPrice,
        pat \in [1..PatLen -> 1..MaxPrice], last \in 1..MaxPrice}

InitInd ==
    /\ pc = "args"
    /\ route = "none"
    /\ idx = 0
    /\ invoked = <<>>
    /\ fetched = Undef
    /\ ind = NoIndicators
    /\ sig = NoSignals
    /\ predIn = NoPredIn
    /\ predOut = <<>>
    /\ response = NoResponse
    /\ prices \in IndSeries
    /\ indOut = NoIndicators

\* the indicator calls of lines 16-20 of GET on the series
Calculate ==
    /\ pc = "args"
    /\ indOut' = [k |-> "ind",
                  rsi |-> calculateRSI(prices),
                  bbands |-> calculateBollingerBands(prices),
                  atr |-> calculateATR(prices),
                  supportResistance |-> calculateSupportResistance(prices)]
    /\ pc' = "done"
    /\ UNCHANGED <<route, idx, invoked, fetched, ind, sig, predIn, predOut, response, prices>>

NextInd == Calculate

SpecInd == InitInd /\ [][NextInd]_vars

-----------------------------------------------------------------------------
(* Properties of the fallback fetchers                                      *)

\* lo <= x <= hi for a finite number x
InRange(x, lo, hi) == IsFin(x) /\ FLe(lo, x) /\ FLe(x, hi)

\* the `sources` array of the fetcher of the running request
Sources == IF route = "price" THEN SpotSources ELSE HistSources

\* a spot source succeeds when it produces a number above 0; a history source
\* succeeds when its call returns a series instead of throwing
Succeeded(v) == IF route = "price" THEN IsFin(v) /\ v.n > 0 ELSE v.k = "series"

AllFailed ==
    /\ Len(invoked) = Len(Sources)
    /\ \A k \in 1..Len(invoked) : ~Succeeded(invoked[k].produced)

\* C1: in both fallback fetchers the sources are called in the order of the
\* `sources` array, and when sources 1..k-1 failed and source k succeeded the
\* fetcher returns exactly the value source k produced and calls none of the
\* sources k+1..N.
C1_FirstSuccessWins ==
    /\ Len(invoked) <= Len(Sources)
    /\ \A k \in 1..Len(invoked) : invoked[k].name = Sources[k]
    /\ \A k \in 1..Len(invoked) :
         ( /\ \A j \in 1..(k - 1) : ~Succeeded(invoked[j].produced)
           /\ Succeeded(invoked[k].produced) )
         => (fetched = invoked[k].produced /\ Len(invoked) = k)

\* two spot sources failed, the third produced a price and it was returned
C1_ThirdSourceWins ==
    /\ route = "price"
    /\ Len(invoked) = 3
    /\ ~Succeeded(invoked[1].produced)
    /\ ~Succeeded(invoked[2].produced)
    /\ Succeeded(invoked[3].produced)
    /\ fetched = invoked[3].produced

\* C2: GET /api/btc-price never answers with success and a price that is not
\* a number above 0; when all six spot sources failed it answers with status
\* 500 and an error and no price; when all three history sources failed
\* GET /api/btc-analysis answers with status 500 and an error and generates no
\* predictions.
C2_ExhaustionIsAnError ==
    /\ (route = "price" /\ response.status = 200)
         => (IsFin(response.body.price) /\ response.body.price.n > 0)
    /\ (route = "price" /\ pc = "done" /\ AllFailed)
         => ( /\ response.status = 500
              /\ response.error = "All price sources failed"
              /\ response.body = Undef )
    /\ (route = "analysis" /\ pc = "done" /\ AllFailed)
         => ( /\ response.status = 500
              /\ response.error = "Failed to fetch historical data"
              /\ response.body = Undef
              /\ predOut = <<>> )

\* all six spot sources failed, one of them by reporting a price of 0, and
\* the answer is the error
C2_ZeroPriceRejected ==
    /\ route = "price"
    /\ pc = "done"
    /\ AllFailed
    /\ \E k \in 1..Len(invoked) : invoked[k].produced = Whole(0)
    /\ response.status = 500

-----------------------------------------------------------------------------
(* Properties of generatePredictions                                        *)

\* C3: for every combination of arguments and every timeframe the confidence
\* of the prediction generatePredictions returns lies in [50.0, 95.0].
C3_ConfidenceInRange ==
    pc = "done" =>
        /\ Len(predOut) = Len(timeframes)
        /\ \A i \in 1..Len(predOut) : InRange(predOut[i].confidence, Whole(50), Whole(95))

\* the six rules matched, the gains add up to more than 0.95 and the
\* confidence returned is 95.0
C3_AllRulesMatched ==
    /\ pc = "done"
    /\ predIn \in GridInputs
    /\ Len(Scored(predIn).reasoning) = 6
    /\ FGt(Scored(predIn).confidence, Num(95, 100))
    /\ \A i \in 1..Len(predOut) : predOut[i].confidence = Whole(95)

\* C4: the risk/reward ratio of every prediction is a defined number >= 0,
\* also when the ATR is 0 and the stop-loss equals the current price.
C4_RiskRewardDefined ==
    pc = "done" =>
        \A i \in 1..Len(predOut) :
            IsFin(predOut[i].riskReward) /\ predOut[i].riskReward.n >= 0

\* the worked example: currentPrice 50000, ATR 500, RSI 75, MACD 10, upper
\* band 49000, volume ratio 1, all sentiments 0
IsExample(a) ==
    /\ a.currentPrice = Whole(50000)
    /\ a.atr = Whole(500)
    /\ a.rsi = Whole(75)
    /\ a.macd = Whole(10)
    /\ a.bbands.upper = Whole(49000)
    /\ a.volumeRatio = Whole(1)
    /\ a.sentiment = [reddit |-> Whole(0), x |-> Whole(0)]
    /\ a.newsSentiment = Whole(0)

\* C7: on the worked example every prediction has direction down, the price
\* target set to support2 (returned rounded to two decimals), confidence 85.0,
\* the labels RSI overbought, MACD positive, Price at resistance in that
\* order, and stopLoss 51000.
C7_WorkedExample ==
    (pc = "done" /\ IsExample(predIn)) =>
        /\ Scored(predIn).priceTarget = predIn.supportResistance.support2
        /\ Len(predOut) = Len(timeframes)
        /\ \A i \in 1..Len(predOut) :
             /\ predOut[i].direction = "down"
             /\ predOut[i].prediction = ToFixed(predIn.supportResistance.support2, 2)
             /\ predOut[i].takeProfit = predOut[i].prediction
             /\ predOut[i].confidence = Whole(85)
             /\ predOut[i].reasoning =
                    <<"RSI overbought", " + ", "MACD positive", " + ", "Price at resistance">>
             /\ predOut[i].stopLoss = Whole(51000)

\* the worked example with a support2 of 48500.0125, returned as 48500.01
C7_ExampleGenerated ==
    /\ pc = "done"
    /\ IsExample(predIn)
    /\ predIn.supportResistance.support2 = Num(3880001, 80)
    /\ predOut[1].prediction = Num(4850001, 100)
    /\ predOut[1].confidence = Whole(85)

-----------------------------------------------------------------------------
(* Properties of the indicator functions                                    *)

\* none of the last RSIPeriod steps of the series goes down
NoFallingStep(p) ==
    \A i \in (Len(p) - RSIPeriod + 1)..Len(p) : i > 1 => ~FLt(p[i], p[i - 1])

\* C5: on a series of at least 168 samples calculateRSI returns a value in
\* [0, 100], and 100 when none of the last 14 steps goes down, a flat series
\* included.
C5_RSIInRange ==
    (pc = "done" /\ Len(prices) >= HistLen) =>
        /\ InRange(indOut.rsi, Whole(0), Whole(100))
        /\ NoFallingStep(prices) => indOut.rsi = Whole(100)

\* the samples of the last SRWindow positions of the series
WindowValues(p) == {p[i] : i \in {j \in 1..Len(p) : j > Len(p) - SRWindow}}

\* C6: on a non-empty series calculateSupportResistance returns
\* support <= support2 <= resistance2 <= resistance, the four of them samples
\* of the window of the last 50 positions, support its least and resistance
\* its greatest sample.
C6_LevelsOrdered ==
    pc = "done" =>
        LET sr == indOut.supportResistance
            w  == WindowValues(prices)
        IN  /\ FLe(sr.support, sr.support2)
            /\ FLe(sr.support2, sr.resistance2)
            /\ FLe(sr.resistance2, sr.resistance)
            /\ {sr.support, sr.support2, sr.resistance2, sr.resistance} \subseteq w
            /\ \A v \in w : FLe(sr.support, v) /\ FLe(v, sr.resistance)

\* a series longer than the window whose oldest sample lies below the
\* support, with the two percentile levels apart
C6_OldSampleOutsideWindow ==
    /\ pc = "done"
    /\ Len(prices) > SRWindow
    /\ FLt(prices[1], indOut.supportResistance.support)
    /\ FLt(indOut.supportResistance.support2, indOut.supportResistance.resistance2)

-----------------------------------------------------------------------------
(* Properties of GET /api/btc-analysis                                      *)

\* the value a history source produced is a series with its price and
\* volume arrays present and at least one sample
WellFormedSeries(v) ==
    /\ v.k = "series"
    /\ v.prices.k = "arr"
    /\ v.volumes.k = "arr"
    /\ Len(v.prices.a) > 0

\* C8: a history source whose answer is no well-formed series counts as
\* failed: once the fallback loop is over every source after it has been
\* tried, and the request is answered with an error only after all the
\* history sources were tried.
C8_MalformedCountsAsFailure ==
    (route = "analysis" /\ pc # "fetchHistoricalData") =>
        /\ \A k \in 1..Len(invoked) :
             (~WellFormedSeries(invoked[k].produced) /\ k < Len(HistSources))
             => Len(invoked) > k
        /\ response.status = 500 => Len(invoked) = Len(HistSources)

\* C9: once a history source has returned a series of HistLen samples, the
\* request answers with success and four predictions whatever the signal
\* fetches do, and every signal whose fetch failed (network error, failure
\* status, unparsable body) has its default value.
C9_SignalsDegradeToDefaults ==
    (route = "analysis" /\ pc = "done" /\ ind.k = "ind" /\ Len(fetched.prices.a) = HistLen) =>
        /\ response.status = 200
        /\ Len(predOut) = Len(timeframes)
        /\ sig.failed.ct => sig.sentiment.reddit = Whole(0)
        /\ sig.failed.san => sig.sentiment.x = Whole(0)
        /\ sig.failed.news => sig.newsSentiment = Whole(0)
        /\ sig.failed.fg => sig.onchainMetrics.fearGreedIndex = DefaultMetrics.fearGreedIndex
        /\ sig.failed.tx => sig.onchainMetrics.mempoolSize = DefaultMetrics.mempoolSize
        /\ sig.onchainMetrics.networkHealth = DefaultMetrics.networkHealth

\* C10: the two social values and the news value handed to
\* generatePredictions are numbers in [-1, 1] in every outcome of the
\* fetches, 0 for a fetch that failed.
C10_SentimentInUnitRange ==
    predIn # NoPredIn =>
        /\ InRange(predIn.sentiment.reddit, Whole(-1), Whole(1))
        /\ InRange(predIn.sentiment.x, Whole(-1), Whole(1))
        /\ InRange(predIn.newsSentiment, Whole(-1), Whole(1))
        /\ sig.failed.ct => predIn.sentiment.reddit = Whole(0)
        /\ sig.failed.san => predIn.sentiment.x = Whole(0)
        /\ sig.failed.news => predIn.newsSentiment = Whole(0)

-----------------------------------------------------------------------------
(* Properties of calculateBollingerBands                                    *)

\* C11: on a series whose last 20 prices are above 0 calculateBollingerBands
\* returns upper >= middle >= lower.
C11_BandsOrdered ==
    (pc = "done" /\ Len(prices) >= BBPeriod) =>
        /\ FGe(indOut.bbands.upper, indOut.bbands.middle)
        /\ FGe(indOut.bbands.middle, indOut.bbands.lower)

\* a window of 20 prices that are not all equal, with the three bands apart
C11_BandsApart ==
    /\ pc = "done"
    /\ Len(prices) >= BBPeriod
    /\ \E i \in 1..Len(prices) : i > Len(prices) - BBPeriod /\ prices[i] # prices[Len(prices)]
    /\ FGt(indOut.bbands.upper, indOut.bbands.middle)
    /\ FGt(indOut.bbands.middle, indOut.bbands.lower)

-----------------------------------------------------------------------------
(* Properties of the rule chain of generatePredictions                      *)

\* the accumulator of the call in progress after rule 1, 2 and 3
AfterRSI == RuleRSI(StartScore(predIn), predIn)
AfterMACD == RuleMACD(AfterRSI, predIn)
AfterBands == RuleBands(AfterMACD, predIn)

\* the label and the direction of the MACD branch the arguments select,
\* "" when neither branch matches
MACDLabel ==
    IF FGt(predIn.macd, Whole(0)) THEN "MACD positive"
    ELSE IF FLt(predIn.macd, Whole(-50)) THEN "MACD negative"
    ELSE ""

MACDDirection == IF MACDLabel = "MACD positive" THEN "up" ELSE "down"

\* rule 1 set the direction against the sign of the MACD
MACDOpposed ==
    \/ MACDLabel = "MACD positive" /\ AfterRSI.direction = "down"
    \/ MACDLabel = "MACD negative" /\ AfterRSI.direction = "up"

\* the labels of a joined reasoning
LabelsOf(reasoning) == {reasoning[i] : i \in 1..Len(reasoning)}

\* C12, as stated: whenever a MACD branch matches, the confidence before the
\* clamp grows by 0.12 and the label is appended, whatever direction rule 1
\* set.
C12_MACDAlwaysGains ==
    (pc = "done" /\ MACDLabel # "") =>
        /\ AfterMACD.confidence = FAdd(AfterRSI.confidence, Num(12, 100))
        /\ AfterMACD.reasoning = Append(AfterRSI.reasoning, MACDLabel)
        /\ \A i \in 1..Len(predOut) : MACDLabel \in LabelsOf(predOut[i].reasoning)

\* C12, amended: whenever a MACD branch matches, the label is appended and
\* the target is shifted by 0.8 ATR whatever direction rule 1 set; the
\* confidence before the clamp grows by 0.12 and the direction is set only
\* when rule 1 did not set the opposite direction, otherwise both stay.
C12_MACDGainsUnlessOpposed ==
    (pc = "done" /\ MACDLabel # "") =>
        /\ AfterMACD.reasoning = Append(AfterRSI.reasoning, MACDLabel)
        /\ \A i \in 1..Len(predOut) : MACDLabel \in LabelsOf(predOut[i].reasoning)
        /\ AfterMACD.priceTarget =
               IF MACDDirection = "up"
               THEN FAdd(AfterRSI.priceTarget, FMul(predIn.atr, Num(8, 10)))
               ELSE FSub(AfterRSI.priceTarget, FMul(predIn.atr, Num(8, 10)))
        /\ IF MACDOpposed
           THEN /\ AfterMACD.confidence = AfterRSI.confidence
                /\ AfterMACD.direction = AfterRSI.direction
           ELSE /\ AfterMACD.confidence = FAdd(AfterRSI.confidence, Num(12, 100))
                /\ AfterMACD.direction = MACDDirection

\* RSI above 70 set the direction down, the MACD is positive, and the
\* prediction carries both labels with a confidence of 0.5 + 0.15
C12_OpposedMACD ==
    /\ pc = "done"
    /\ MACDLabel = "MACD positive"
    /\ MACDOpposed
    /\ predOut[1].reasoning = <<"RSI overbought", " + ", "MACD positive">>
    /\ predOut[1].confidence = Whole(65)

\* the factor rule 4 (volume), rule 5 (social sentiment) and rule 6 (news)
\* apply to the target, read off the arguments; dir is the direction rule 3
\* left
VolumeFactor(dir) ==
    IF FGt(predIn.volumeRatio, Num(15, 10)) /\ dir = "up" THEN Num(101, 100)
    ELSE IF FGt(predIn.volumeRatio, Num(15, 10)) /\ dir = "down" THEN Num(99, 100)
    ELSE Whole(1)

SentimentFactor ==
    LET avg == FDiv(FAdd(predIn.sentiment.reddit, predIn.sentiment.x), Whole(2))
    IN  IF FGt(avg, Num(2, 10)) THEN Num(1005, 1000)
        ELSE IF FLt(avg, Num(-2, 10)) THEN Num(995, 1000)
        ELSE Whole(1)

NewsFactor ==
    IF FGt(predIn.newsSentiment, Num(3, 10)) THEN Num(1003, 1000)
    ELSE IF FLt(predIn.newsSentiment, Num(-3, 10)) THEN Num(997, 1000)
    ELSE Whole(1)

LaterFactors(dir) == FMul(FMul(VolumeFactor(dir), SentimentFactor), NewsFactor)

AboveUpperBand == FGt(predIn.currentPrice, FMul(predIn.bbands.upper, Num(102, 100)))
BelowLowerBand == FLt(predIn.currentPrice, FMul(predIn.bbands.lower, Num(98, 100)))

\* C13: whenever currentPrice > bbands.upper * 1.02 the direction after rule
\* 3 is down and the target is support2, whatever rules 1 and 2 left; with
\* currentPrice < bbands.lower * 0.98 it is up and resistance2.  Afterwards
\* the direction stays and the target changes only by the factors of rules
\* 4 to 6.
C13_BandRuleOverrides ==
    pc = "done" =>
        /\ AboveUpperBand =>
             /\ AfterBands.direction = "down"
             /\ AfterBands.priceTarget = predIn.supportResistance.support2
             /\ \A i \in 1..Len(predOut) :
                  /\ predOut[i].direction = "down"
                  /\ predOut[i].takeProfit =
                         ToFixed(FMul(predIn.supportResistance.support2, LaterFactors("down")), 2)
        /\ BelowLowerBand =>
             /\ AfterBands.direction = "up"
             /\ AfterBands.priceTarget = predIn.supportResistance.resistance2
             /\ \A i \in 1..Len(predOut) :
                  /\ predOut[i].direction = "up"
                  /\ predOut[i].takeProfit =
                         ToFixed(FMul(predIn.supportResistance.resistance2, LaterFactors("up")), 2)

\* rules 1 and 2 set the direction up and moved the target, the price is
\* above the upper band, and the prediction is down with the target support2
\* times the 0.99 of the volume rule
C13_UpOverridden ==
    /\ pc = "done"
    /\ AfterMACD.direction = "up"
    /\ AfterMACD.priceTarget # predIn.currentPrice
    /\ AboveUpperBand
    /\ predIn.supportResistance.support2 = Whole(40)
    /\ predOut[1].direction = "down"
    /\ predOut[1].takeProfit = Num(396, 10)

-----------------------------------------------------------------------------
(* The value of the Bollinger bands                                         *)

\* the sum of the numbers a[lo], ..., a[hi], by halves
RECURSIVE SeqSum(_, _, _)
SeqSum(a, lo, hi) ==
    IF lo > hi THEN Whole(0)
    ELSE IF lo = hi THEN a[lo]
    ELSE FAdd(SeqSum(a, lo, (lo + hi) \div 2), SeqSum(a, (lo + hi) \div 2 + 1, hi))

\* the arithmetic mean of a non-empty sequence of numbers
Mean(a) == FDiv(SeqSum(a, 1, Len(a)), Whole(Len(a)))

\* the population variance: the mean of the squared deviations of all the
\* elements from their mean
PopulationVariance(a) ==
    Mean([i \in 1..Len(a) |-> FMul(FSub(a[i], Mean(a)), FSub(a[i], Mean(a)))])

\* C14: on a series of at least 20 prices calculateBollingerBands returns
\* middle = the mean of the last 20 prices and upper / lower = middle plus /
\* minus twice the square root of their population variance.
C14_PopulationStdDev ==
    (pc = "done" /\ Len(prices) >= BBPeriod) =>
        LET w == SubSeq(prices, Len(prices) - BBPeriod + 1, Len(prices))
            s == FSqrt(PopulationVariance(w))
        IN  /\ indOut.bbands.middle = Mean(w)
            /\ indOut.bbands.upper = FAdd(Mean(w), FMul(s, Whole(2)))
            /\ indOut.bbands.lower = FSub(Mean(w), FMul(s, Whole(2)))

-----------------------------------------------------------------------------
(* Properties of the predictions returned                                   *)

\* a prediction with its timeframe label blanked
Unlabelled(p) == [p EXCEPT !.timeframe = ""]

\* C15: the four predictions of one call carry the labels 1h, 2h, 3h, 5h in
\* this order and agree on every other field: direction, prediction,
\* confidence, reasoning, stopLoss, takeProfit and riskReward.
C15_TimeframeIndependent ==
    pc = "done" =>
        /\ [i \in 1..Len(predOut) |-> predOut[i].timeframe] = <<"1h", "2h", "3h", "5h">>
        /\ \A i, j \in 1..Len(predOut) : Unlabelled(predOut[i]) = Unlabelled(predOut[j])

\* a call with an ATR above 0 whose predictions are up with a target off the
\* current price: the multipliers 0.5 and 1 give the same fields
C15_SameForAllTimeframes ==
    /\ pc = "done"
    /\ FGt(predIn.atr, Whole(0))
    /\ timeframes[1].volatilityMultiplier # timeframes[4].volatilityMultiplier
    /\ predOut[1].direction = "up"
    /\ predOut[1].prediction # predIn.currentPrice
    /\ predOut[1].timeframe # predOut[4].timeframe
    /\ Unlabelled(predOut[1]) = Unlabelled(predOut[4])

\* C16: for every call with an ATR above 0, a prediction that is up has its
\* takeProfit at or above the current price and its stopLoss below it, and a
\* prediction that is down has its takeProfit at or below the current price
\* and its stopLoss above it.
C16_ExitLevelsOnTheirSides ==
    (pc = "done" /\ FGt(predIn.atr, Whole(0))) =>
        \A i \in 1..Len(predOut) :
            /\ predOut[i].direction = "up" =>
                 /\ FGe(predOut[i].takeProfit, predIn.currentPrice)
                 /\ FLt(predOut[i].stopLoss, predIn.currentPrice)
            /\ predOut[i].direction = "down" =>
                 /\ FLe(predOut[i].takeProfit, predIn.currentPrice)
                 /\ FGt(predOut[i].stopLoss, predIn.currentPrice)

=============================================================================
